---- MODULE Spec2Model ----
(***************************************************************************)
(* Model of os1.py: the Request entity, the WebServer queue with its three *)
(* scheduling loops, and simulate_scheduling, which loads a batch into a   *)
(* fresh WebServer and dispatches on the algorithm name.                   *)
(*                                                                         *)
(* Request objects live in a heap (requests) indexed by object reference;  *)
(* the batch, the queue and the completion list hold references.           *)
(***************************************************************************)
EXTENDS Integers, Sequences, FiniteSets, TLC

\* ---------------------------------------------------------------- bounds
MaxN == 3            \* largest enumerated batch
MaxPT == 4           \* largest enumerated processing_time
MaxSelPT == 3        \* the same for priority scheduling, whose batches also vary priority
MaxPrePT == 1        \* the same for its preemptive calls, whose batches also vary arrival_time
MaxPrio == 2         \* largest enumerated priority
MaxArr == 1          \* largest enumerated arrival_time
MaxQuantum == 3      \* largest enumerated time_quantum
MaxNegQuantum == 1   \* time_quantum ranges down to -MaxNegQuantum
MaxSpin == 3         \* slices explored per request when time_quantum <= 0
MaxCopyN == 3        \* largest batch for which the second call is explored
MaxGenN == 3         \* largest num_requests handed to generate_requests
MaxGenT == 2         \* largest max_arrival_time handed to generate_requests
MaxNegArg == 1       \* both arguments range down to -MaxNegArg

\* ------------------------------------------------------- Request entity
Request(id, processing_time, priority, arrival_time) ==
    [id |-> id, processing_time |-> processing_time, priority |-> priority,
     arrival_time |-> arrival_time, remaining_time |-> processing_time]

\* Batches named in the documentation of the algorithms.
ExampleSingle == << Request(1, 7, 1, 0) >>
ExampleRR == << Request(1, 5, 1, 0), Request(2, 3, 1, 1) >>
ExamplePriority == << Request(1, 4, 3, 0), Request(2, 2, 1, 1), Request(3, 5, 2, 2) >>
ExampleSJF == << Request(1, 9, 1, 0), Request(2, 1, 1, 1), Request(3, 4, 1, 2) >>
ExampleBatches == {ExampleSingle, ExampleRR, ExamplePriority, ExampleSJF}

KnownAlgorithms == {"round_robin", "priority", "sjf"}

\* The (processing_time, priority, arrival_time) triples enumerated for a
\* call.  Only the fields the chosen loop reads are varied: round-robin
\* reads remaining_time alone, shortest-job-first never reads priority, and
\* arrival_time is read only in the preemptive selection keys.
FieldsFor(a, pre) ==
    IF a = "priority"
    THEN IF pre THEN (1..MaxPrePT) \X (1..MaxPrio) \X (0..MaxArr)
         ELSE (1..MaxSelPT) \X (1..MaxPrio) \X {0}
    ELSE IF a = "sjf"
    THEN (1..MaxPT) \X {1} \X (IF pre THEN 0..MaxArr ELSE {0})
    ELSE (1..MaxPT) \X {1} \X {0}

\* The batch of fresh requests with the triples f, ids dense in list order.
BatchOf(f) == [i \in DOMAIN f |-> Request(i - 1, f[i][1], f[i][2], f[i][3])]

Algorithms == KnownAlgorithms \cup {"fifo"}
Quanta == (0 - MaxNegQuantum)..MaxQuantum
DefaultQuantum == 2

VARIABLES
    requests,      \* heap: object reference -> Request fields
    batch,         \* the list handed to simulate_scheduling (references)
    algorithm, time_quantum, preemptive,   \* its other arguments
    pc,            \* "start", the loop being run, "done" or "raised"
    queue,         \* WebServer.queue
    total_time,    \* cumulative simulated time of the running loop
    completed,     \* completed_requests: <<reference, total_time>> records
    slices,        \* history of round-robin pops: <<reference, amount served>>
    run,           \* 1 for the first call, 2 for the call on the copied batch
    num_requests, max_arrival_time,   \* the arguments of generate_requests
    first_trace    \* the (id, time) trace returned by the first call

vars == <<requests, batch, algorithm, time_quantum, preemptive, pc, queue,
          total_time, completed, slices, run, first_trace,
          num_requests, max_arrival_time>>

Refs == DOMAIN requests

\* ------------------------------------------------------------- helpers
RECURSIVE SumSeq(_)
SumSeq(s) == IF s = << >> THEN 0 ELSE Head(s) + SumSeq(Tail(s))

\* Python tuple comparison a < b for tuples of equal length.
LexLess(a, b) ==
    \E i \in 1..Len(a) : a[i] < b[i] /\ \A j \in 1..(i - 1) : a[j] = b[j]

\* min(iterable, key=...): scan left to right, replace the best only by a
\* strictly smaller key, so the first minimal element wins.
RECURSIVE MinScan(_, _, _)
MinScan(keys, i, best) ==
    IF i > Len(keys) THEN best
    ELSE MinScan(keys, i + 1, IF LexLess(keys[i], keys[best]) THEN i ELSE best)

\* Variant: ties between minimal keys go to the object with the lowest
\* reference instead of the first in queue order.
PyMin_ByIdentity(keys) ==
    CHOOSE i \in 1..Len(keys) :
        /\ \A j \in 1..Len(keys) : ~LexLess(keys[j], keys[i])
        /\ \A j \in 1..Len(keys) :
              (~LexLess(keys[i], keys[j]) /\ j # i) => queue[i] < queue[j]

\* Variant: the last of several minimal keys wins.
PyMin_LastWins(keys) ==
    CHOOSE i \in 1..Len(keys) :
        /\ \A j \in 1..Len(keys) : ~LexLess(keys[j], keys[i])
        /\ \A j \in (i + 1)..Len(keys) : LexLess(keys[i], keys[j])

PyMin(keys) == MinScan(keys, 2, 1)

\* Variant: the head is dropped instead of the selected element.
Remove_PopLeft(q, x) == Tail(q)

\* deque.remove(x): delete the first element that is x.
Remove(q, x) ==
    LET i == CHOOSE k \in 1..Len(q) : q[k] = x /\ \A j \in 1..(k - 1) : q[j] # x
    IN  SubSeq(q, 1, i - 1) \o SubSeq(q, i + 1, Len(q))

\* Variant: a larger priority value is served first.
PriorityKey_HighestFirst(r, pre) ==
    IF pre THEN <<0 - r.priority, r.arrival_time>> ELSE <<0 - r.priority>>

\* Variant: shortest-job-first selects on the priority field.
SJFKey_Priority(r, pre) ==
    IF pre THEN <<r.priority, r.arrival_time>> ELSE <<r.priority>>

\* Selection keys of the two selecting loops.
\* Variant: the preemptive key leaves out arrival_time.
PriorityKey_IgnoreArrival(r, pre) == <<r.priority>>

\* Variant: the preemptive key leaves out arrival_time.
SJFKey_IgnoreArrival(r, pre) ==
    IF pre THEN <<r.remaining_time>> ELSE <<r.processing_time>>

PriorityKey(r, pre) ==
    IF pre THEN <<r.priority, r.arrival_time>> ELSE <<r.priority>>

SJFKey(r, pre) ==
    IF pre THEN <<r.remaining_time, r.arrival_time>> ELSE <<r.processing_time>>

\* Variant: the finishing test is strict.
Finishes_Strict(r, q) == r.remaining_time < q

\* Round-robin body, one pop of the queue head.
Finishes(r, q) == r.remaining_time <= q

\* Variant: a finishing slice is charged the whole quantum.
SliceAmount_FullQuantum(r, q) == q

SliceAmount(r, q) == IF Finishes(r, q) THEN r.remaining_time ELSE q

\* Variant: the quantum is subtracted in both branches.
NewRemaining_NoClamp(r, q) == r.remaining_time - q

\* Variant: an unfinished request keeps its remaining_time.
NewRemaining_NotCharged(r, q) == IF Finishes(r, q) THEN 0 ELSE r.remaining_time

NewRemaining(r, q) == IF Finishes(r, q) THEN 0 ELSE r.remaining_time - q

\* Variant: an unfinished request goes back to the head of the queue.
Requeue_Front(q, cur) == <<cur>> \o q

Requeue(q, cur) == Append(q, cur)

\* Variant: the last known algorithm is the fall-through branch.
Dispatch_FallThrough(a) ==
    IF a = "round_robin" THEN "round_robin"
    ELSE IF a = "priority" THEN "priority"
    ELSE "sjf"

\* simulate_scheduling's if/elif chain.
Dispatch(a) ==
    IF a = "round_robin" THEN "round_robin"
    ELSE IF a = "priority" THEN "priority"
    ELSE IF a = "sjf" THEN "sjf"
    ELSE "raised"

Pops(ref) == Cardinality({i \in 1..Len(slices) : slices[i][1] = ref})

\* ---------------------------------------------------------------- Init
Init ==
    /\ algorithm \in Algorithms
    /\ time_quantum \in Quanta
    /\ preemptive \in BOOLEAN
    /\ algorithm = "round_robin" => preemptive = FALSE
    /\ algorithm # "round_robin" => time_quantum = DefaultQuantum
    /\ algorithm \notin KnownAlgorithms => preemptive = FALSE
    /\ \/ requests \in ExampleBatches
       \/ \E n \in 0..MaxN : \E f \in [1..n -> FieldsFor(algorithm, preemptive)] :
             requests = BatchOf(f)
    /\ batch = [i \in DOMAIN requests |-> i]
    /\ pc = "start"
    /\ queue = << >>
    /\ total_time = 0
    /\ completed = << >>
    /\ slices = << >>
    /\ run = 1
    /\ first_trace = << >>
    /\ num_requests = 0          \* the batch is built by the caller,
    /\ max_arrival_time = 0      \* generate_requests is not involved

\* ------------------------------------------------------------- actions
\* simulate_scheduling up to the call of the chosen loop: a new WebServer,
\* every request appended to its queue, then the dispatch.
Simulate ==
    /\ pc = "start"
    /\ Dispatch(algorithm) # "raised"
    /\ queue' = batch
    /\ total_time' = 0
    /\ completed' = << >>
    /\ slices' = << >>
    /\ pc' = Dispatch(algorithm)
    /\ UNCHANGED <<num_requests, max_arrival_time, requests, batch, algorithm, time_quantum, preemptive, run, first_trace>>

\* The else branch: raise ValueError after the queue was loaded.
SimulateRaise ==
    /\ pc = "start"
    /\ Dispatch(algorithm) = "raised"
    /\ queue' = batch
    /\ pc' = "raised"
    /\ UNCHANGED <<num_requests, max_arrival_time, requests, batch, algorithm, time_quantum, preemptive,
                   total_time, completed, slices, run, first_trace>>

\* One iteration of process_round_robin's while loop.
RoundRobinStep ==
    /\ pc = "round_robin"
    /\ queue # << >>
    /\ LET cur == Head(queue)
           r == requests[cur]
           rest == Tail(queue)
       IN  /\ time_quantum >= 1 \/ Pops(cur) < MaxSpin
           /\ total_time' = total_time + SliceAmount(r, time_quantum)
           /\ requests' = [requests EXCEPT ![cur].remaining_time = NewRemaining(r, time_quantum)]
           /\ slices' = Append(slices, <<cur, SliceAmount(r, time_quantum)>>)
           /\ IF Finishes(r, time_quantum)
              THEN /\ completed' = Append(completed, <<cur, total_time'>>)
                   /\ queue' = rest
              ELSE /\ completed' = completed
                   /\ queue' = Requeue(rest, cur)
    /\ UNCHANGED <<num_requests, max_arrival_time, batch, algorithm, time_quantum, preemptive, pc, run, first_trace>>

\* Variant: a completed request gets remaining_time 0.
PriorityStep_ZeroesRemaining ==
    /\ pc = "priority"
    /\ queue # << >>
    /\ LET keys == [i \in 1..Len(queue) |-> PriorityKey(requests[queue[i]], preemptive)]
           highest_priority == queue[PyMin(keys)]
       IN  /\ queue' = Remove(queue, highest_priority)
           /\ total_time' = total_time + requests[highest_priority].processing_time
           /\ completed' = Append(completed, <<highest_priority, total_time'>>)
           /\ requests' = [requests EXCEPT ![highest_priority].remaining_time = 0]
    /\ UNCHANGED <<num_requests, max_arrival_time, batch, algorithm, time_quantum,
                   preemptive, pc, slices, run, first_trace>>

\* One iteration of process_priority_scheduling's while loop.
PriorityStep ==
    /\ pc = "priority"
    /\ queue # << >>
    /\ LET keys == [i \in 1..Len(queue) |-> PriorityKey(requests[queue[i]], preemptive)]
           highest_priority == queue[PyMin(keys)]
       IN  /\ queue' = Remove(queue, highest_priority)
           /\ total_time' = total_time + requests[highest_priority].processing_time
           /\ completed' = Append(completed, <<highest_priority, total_time'>>)
    /\ UNCHANGED <<num_requests, max_arrival_time, requests, batch, algorithm, time_quantum, preemptive, pc,
                   slices, run, first_trace>>

\* Variant: the record carries the request's own processing_time.
SJFStep_RecordsOwnTime ==
    /\ pc = "sjf"
    /\ queue # << >>
    /\ LET keys == [i \in 1..Len(queue) |-> SJFKey(requests[queue[i]], preemptive)]
           shortest_job == queue[PyMin(keys)]
       IN  /\ queue' = Remove(queue, shortest_job)
           /\ total_time' = total_time + requests[shortest_job].processing_time
           /\ completed' = Append(completed,
                  <<shortest_job, requests[shortest_job].processing_time>>)
    /\ UNCHANGED <<num_requests, max_arrival_time, requests, batch, algorithm,
                   time_quantum, preemptive, pc, slices, run, first_trace>>

\* One iteration of process_shortest_job_first's while loop.
SJFStep ==
    /\ pc = "sjf"
    /\ queue # << >>
    /\ LET keys == [i \in 1..Len(queue) |-> SJFKey(requests[queue[i]], preemptive)]
           shortest_job == queue[PyMin(keys)]
       IN  /\ queue' = Remove(queue, shortest_job)
           /\ total_time' = total_time + requests[shortest_job].processing_time
           /\ completed' = Append(completed, <<shortest_job, total_time'>>)
    /\ UNCHANGED <<num_requests, max_arrival_time, requests, batch, algorithm, time_quantum, preemptive, pc,
                   slices, run, first_trace>>

\* The loop condition fails: return completed_requests to simulate_scheduling,
\* which returns it to its caller.
Return ==
    /\ pc \in KnownAlgorithms
    /\ queue = << >>
    /\ pc' = "done"
    /\ UNCHANGED <<num_requests, max_arrival_time, requests, batch, algorithm, time_quantum, preemptive, queue,
                   total_time, completed, slices, run, first_trace>>

Next == Simulate \/ SimulateRaise \/ RoundRobinStep \/ PriorityStep \/ SJFStep \/ Return

Spec == Init /\ [][Next]_vars

\* The call is single-threaded and synchronous: whenever a step of it can be
\* taken, it is taken.
\* Its calls are those of Init with arrival_time left at 0 in the
\* enumerated batches.
InitLive ==
    /\ algorithm \in Algorithms
    /\ time_quantum \in Quanta
    /\ preemptive \in BOOLEAN
    /\ algorithm = "round_robin" => preemptive = FALSE
    /\ algorithm # "round_robin" => time_quantum = DefaultQuantum
    /\ algorithm \notin KnownAlgorithms => preemptive = FALSE
    /\ \/ requests \in ExampleBatches
       \/ \E n \in 0..MaxN : \E f \in [1..n -> FieldsFor(algorithm, FALSE)] :
             requests = BatchOf(f)
    /\ batch = [i \in DOMAIN requests |-> i]
    /\ pc = "start"
    /\ queue = << >>
    /\ total_time = 0
    /\ completed = << >>
    /\ slices = << >>
    /\ run = 1
    /\ first_trace = << >>
    /\ num_requests = 0
    /\ max_arrival_time = 0

SpecFair == InitLive /\ [][Next]_vars /\ WF_vars(Next)

\* A second call of simulate_scheduling with the same arguments on a
\* separately built copy of the batch: the copies are new objects, so the
\* references of the list are laid out anew (in allocation order or against
\* it), and each copy is constructed from the original's id,
\* processing_time, priority and arrival_time.
Layouts(n) == {[i \in 1..n |-> i], [i \in 1..n |-> n + 1 - i]}

Trace == [k \in 1..Len(completed) |-> <<requests[completed[k][1]].id, completed[k][2]>>]

Rerun ==
    /\ pc = "done"
    /\ run = 1
    /\ Len(batch) <= MaxCopyN
    /\ first_trace' = Trace
    /\ \E layout \in Layouts(Len(batch)) :
          /\ batch' = layout
          /\ requests' = [ref \in Refs |->
                LET pos == CHOOSE i \in 1..Len(batch) : layout[i] = ref
                    r == requests[batch[pos]]
                IN  Request(r.id, r.processing_time, r.priority, r.arrival_time)]
    /\ run' = 2
    /\ pc' = "start"
    /\ queue' = << >>
    /\ total_time' = 0
    /\ completed' = << >>
    /\ slices' = << >>
    /\ UNCHANGED <<num_requests, max_arrival_time, algorithm, time_quantum, preemptive>>

NextTwice ==
    Simulate \/ SimulateRaise \/ RoundRobinStep \/ PriorityStep \/ SJFStep \/ Return \/ Rerun

SpecTwice == Init /\ [][NextTwice]_vars

\* ------------------------------------- the same batch, preemptive toggled
\* A batch in the order generate_requests returns it (sorted by
\* arrival_time) is run non-preemptively, then a copy of it preemptively.
InitSorted ==
    /\ algorithm \in {"priority", "sjf"}
    /\ time_quantum = DefaultQuantum
    /\ preemptive = FALSE
    /\ \E n \in 0..MaxN : \E f \in [1..n -> FieldsFor(algorithm, TRUE)] :
          /\ \A i \in 1..(n - 1) : f[i][3] <= f[i + 1][3]
          /\ requests = BatchOf(f)
    /\ batch = [i \in DOMAIN requests |-> i]
    /\ pc = "start"
    /\ queue = << >>
    /\ total_time = 0
    /\ completed = << >>
    /\ slices = << >>
    /\ run = 1
    /\ first_trace = << >>
    /\ num_requests = 0
    /\ max_arrival_time = 0

RerunPreemptive ==
    /\ pc = "done"
    /\ run = 1
    /\ first_trace' = Trace
    /\ preemptive' = TRUE
    /\ \E layout \in Layouts(Len(batch)) :
          /\ batch' = layout
          /\ requests' = [ref \in Refs |->
                LET pos == CHOOSE i \in 1..Len(batch) : layout[i] = ref
                    r == requests[batch[pos]]
                IN  Request(r.id, r.processing_time, r.priority, r.arrival_time)]
    /\ run' = 2
    /\ pc' = "start"
    /\ queue' = << >>
    /\ total_time' = 0
    /\ completed' = << >>
    /\ slices' = << >>
    /\ UNCHANGED <<num_requests, max_arrival_time, algorithm, time_quantum>>

NextToggle == Simulate \/ PriorityStep \/ SJFStep \/ Return \/ RerunPreemptive

SpecToggle == InitSorted /\ [][NextToggle]_vars

\* ------------------------------------------------------ generate_requests
\* random.randint(1, 10) and random.randint(1, 5): the ends of each range
\* are drawn.
ProcTimeLow == 1
ProcTimeHigh == 10
PriorityLow == 1
PriorityHigh == 5
ProcTimeDraws == {ProcTimeLow, ProcTimeHigh}
PriorityDraws == {PriorityLow, PriorityHigh}

\* random.uniform(0, T) is 0 + (T - 0) * random(): a value between 0 and T
\* whichever of the two is the larger.  Arrival times are floats; the
\* whole-numbered ones are drawn.
ArrivalDraws(T) == IF T >= 0 THEN 0..T ELSE T..0

\* sorted(requests, key=arrival_time) is stable: an element is placed after
\* every element whose key is not larger.
RECURSIVE InsertSorted_BeforeEqual(_, _, _)
\* Variant: an element is placed before the elements of equal key.
InsertSorted_BeforeEqual(s, x, key) ==
    IF s = << >> THEN <<x>>
    ELSE IF key[x] <= key[Head(s)] THEN <<x>> \o s
    ELSE <<Head(s)>> \o InsertSorted_BeforeEqual(Tail(s), x, key)

RECURSIVE InsertSorted(_, _, _)
InsertSorted(s, x, key) ==
    IF s = << >> THEN <<x>>
    ELSE IF key[x] < key[Head(s)] THEN <<x>> \o s
    ELSE <<Head(s)>> \o InsertSorted(Tail(s), x, key)

RECURSIVE SortPrefix(_, _, _)
SortPrefix(seq, k, key) ==
    IF k = 0 THEN << >>
    ELSE InsertSorted(SortPrefix(seq, k - 1, key), seq[k], key)

PySorted(seq, key) == SortPrefix(seq, Len(seq), key)

InitGen ==
    /\ num_requests \in (0 - MaxNegArg)..MaxGenN
    /\ max_arrival_time \in (0 - MaxNegArg)..MaxGenT
    /\ pc = "generate"
    /\ requests = << >>
    /\ batch = << >>
    /\ algorithm = "round_robin"
    /\ time_quantum = DefaultQuantum
    /\ preemptive = FALSE
    /\ queue = << >>
    /\ total_time = 0
    /\ completed = << >>
    /\ slices = << >>
    /\ run = 1
    /\ first_trace = << >>

\* One iteration of the for loop: three draws and a new Request whose id is
\* the loop index.
GenerateStep ==
    /\ pc = "generate"
    /\ Len(requests) < num_requests
    /\ \E processing_time \in ProcTimeDraws, priority \in PriorityDraws,
          arrival_time \in ArrivalDraws(max_arrival_time) :
          requests' = Append(requests,
              Request(Len(requests), processing_time, priority, arrival_time))
    /\ UNCHANGED <<num_requests, max_arrival_time, batch, algorithm, time_quantum,
                   preemptive, pc, queue, total_time, completed, slices, run,
                   first_trace>>

\* range(num_requests) is exhausted (at once when num_requests <= 0): return
\* the list sorted by arrival_time.
GenerateReturn ==
    /\ pc = "generate"
    /\ Len(requests) >= num_requests
    /\ batch' = PySorted([i \in 1..Len(requests) |-> i],
                         [ref \in Refs |-> requests[ref].arrival_time])
    /\ pc' = "generated"
    /\ UNCHANGED <<num_requests, max_arrival_time, requests, algorithm,
                   time_quantum, preemptive, queue, total_time, completed,
                   slices, run, first_trace>>

NextGen == GenerateStep \/ GenerateReturn

SpecGen == InitGen /\ [][NextGen]_vars

\* ------------------------------------------------------ shared notions
ValidCall ==
    /\ algorithm \in KnownAlgorithms
    /\ algorithm = "round_robin" => time_quantum >= 1

RoundRobinRun == algorithm = "round_robin" /\ time_quantum >= 1

Records(ref) == {k \in 1..Len(completed) : completed[k][1] = ref}

HasRecord(ref) == Records(ref) # {}

CompletionTime(ref) == completed[CHOOSE k \in Records(ref) : TRUE][2]

Ceil(p, q) == (p + q - 1) \div q

Min2(a, b) == IF a <= b THEN a ELSE b

\* Sum of the processing_time of the first k completed requests.
ServiceOfFirst(k) ==
    SumSeq([j \in 1..k |-> requests[completed[j][1]].processing_time])

\* Sum of the amounts of the first n round-robin slices.
ServedUpTo(n) == SumSeq([i \in 1..n |-> slices[i][2]])

LastSlice(ref) ==
    CHOOSE i \in 1..Len(slices) :
        slices[i][1] = ref /\ \A j \in (i + 1)..Len(slices) : slices[j][1] # ref

\* Cyclic FIFO service in closed form: the request at list position i
\* finishes in round Ceil(p_i, q); by then every request ahead of it in the
\* list has had that many rounds, every request behind it one round fewer.
CyclicFinish(i) ==
    LET p(j) == requests[batch[j]].processing_time
        k == Ceil(p(i), time_quantum)
    IN  SumSeq([j \in 1..Len(batch) |->
                  IF j < i THEN Min2(p(j), k * time_quantum)
                  ELSE IF j = i THEN p(i)
                  ELSE Min2(p(j), (k - 1) * time_quantum)])

\* ------------------------------------------------------------------ C1
\* C1: for a valid call (known algorithm, quantum >= 1 for round-robin) no
\* request is ever completed twice, and when the call returns on a
\* non-empty batch the completion list has as many records as the batch has
\* requests and every request id of the batch occurs in it exactly once.
Thm_C1_EveryIdCompletedOnce ==
    ValidCall =>
        /\ \A ref \in Refs : Cardinality(Records(ref)) <= 1
        /\ (pc = "done" /\ batch # << >>) =>
              /\ Len(completed) = Len(batch)
              /\ \A i \in 1..Len(batch) :
                    Cardinality({k \in 1..Len(completed) :
                        requests[completed[k][1]].id = requests[batch[i]].id}) = 1

Wit_C1_SelectingRunReturned ==
    /\ pc = "done"
    /\ algorithm = "priority"
    /\ Len(batch) = 3
    /\ Len(completed) = 3
    /\ completed[1][1] # batch[1]

\* ------------------------------------------------------------------ C2
\* C2: round-robin called with a quantum of 0 or less fails (raises) before
\* any completion record is produced: once the call has been entered it has
\* raised, it is not running a loop and it has emitted nothing.
Cex_C2_InvalidQuantumRaises ==
    (algorithm = "round_robin" /\ time_quantum <= 0 /\ pc # "start") =>
        (pc = "raised" /\ completed = << >>)

\* ------------------------------------------------------------------ C3
\* C3: a call with an unknown algorithm name raises, returns no completion
\* record and changes no request; after the raise nothing further happens
\* (no scheduling step is taken).
C3_Step ==
    /\ (pc = "start" /\ algorithm \notin KnownAlgorithms) =>
          (pc' = "raised" /\ requests' = requests /\ completed' = << >> /\ slices' = << >>)
    /\ pc = "raised" => UNCHANGED vars
    /\ pc' = "raised" => algorithm \notin KnownAlgorithms

Thm_C3_UnknownAlgorithmRaises == [][C3_Step]_vars

Wit_C3_Raised ==
    /\ pc = "raised"
    /\ Len(batch) >= 2
    /\ completed = << >>
    /\ \A ref \in Refs : requests[ref].remaining_time = requests[ref].processing_time

\* ------------------------------------------------------------------ C4
\* C4: in every state of a valid call on a fresh batch every request has
\* 0 <= remaining_time <= processing_time, and in round-robin no step
\* increases any remaining_time.
C4_Range ==
    ValidCall =>
        \A ref \in Refs :
            /\ 0 <= requests[ref].remaining_time
            /\ requests[ref].remaining_time <= requests[ref].processing_time

C4_NonIncreasing ==
    RoundRobinRun =>
        \A ref \in Refs : requests'[ref].remaining_time <= requests[ref].remaining_time

Thm_C4_RemainingInRange == [] C4_Range /\ [][C4_NonIncreasing]_vars

Wit_C4_PartlyServed ==
    /\ pc = "round_robin"
    /\ time_quantum >= 1
    /\ \E ref \in Refs :
          /\ 0 < requests[ref].remaining_time
          /\ requests[ref].remaining_time < requests[ref].processing_time
    /\ \E ref \in Refs : requests[ref].remaining_time = 0

\* ------------------------------------------------------------------ C5
\* C5 as stated: under every algorithm a request has a completion record
\* iff its remaining_time is 0, and when the call has returned every
\* request has remaining_time 0.
Cex_C5_RecordIffZeroEveryAlgorithm ==
    /\ \A ref \in Refs : HasRecord(ref) <=> requests[ref].remaining_time = 0
    /\ pc = "done" => \A ref \in Refs : requests[ref].remaining_time = 0

\* C5 amended: in round-robin a request has a completion record iff its
\* remaining_time is 0, a request at 0 is no longer queued and stays at 0
\* (it reaches 0 once), and when the call has returned every request is at
\* 0; priority scheduling and shortest-job-first never change
\* remaining_time, so there every request, completed or not, keeps
\* remaining_time = processing_time.
C5_RoundRobin ==
    algorithm = "round_robin" =>
        /\ \A ref \in Refs :
              /\ HasRecord(ref) <=> requests[ref].remaining_time = 0
              /\ Cardinality(Records(ref)) <= 1
              /\ requests[ref].remaining_time = 0 =>
                    \A i \in 1..Len(queue) : queue[i] # ref
        /\ pc = "done" => \A ref \in Refs : requests[ref].remaining_time = 0

C5_Selecting ==
    algorithm \in {"priority", "sjf"} =>
        \A ref \in Refs : requests[ref].remaining_time = requests[ref].processing_time

C5_ZeroStays ==
    \A ref \in Refs :
        requests[ref].remaining_time = 0 => requests'[ref].remaining_time = 0

Thm_C5_RecordIffZeroInRoundRobin ==
    [] (C5_RoundRobin /\ C5_Selecting) /\ [][C5_ZeroStays]_vars

Wit_C5_OneDoneOneQueued ==
    /\ pc = "round_robin"
    /\ \E ref \in Refs : HasRecord(ref) /\ requests[ref].remaining_time = 0
    /\ \E i \in 1..Len(queue) :
          /\ Pops(queue[i]) >= 1
          /\ requests[queue[i]].remaining_time > 0

\* ------------------------------------------------------------------ C6
\* C6: round-robin with quantum q >= 1 on a batch of one request with
\* processing_time p returns exactly one record, at cumulative time p, and
\* the request has been popped exactly ceil(p / q) times (never more while
\* the loop runs).
Thm_C6_SingleRequest ==
    (RoundRobinRun /\ Len(batch) = 1) =>
        LET p == requests[batch[1]].processing_time
        IN  /\ Pops(batch[1]) <= Ceil(p, time_quantum)
            /\ pc = "done" =>
                  /\ Len(completed) = 1
                  /\ completed[1] = <<batch[1], p>>
                  /\ Pops(batch[1]) = Ceil(p, time_quantum)

Wit_C6_SevenByTwo ==
    /\ pc = "done"
    /\ algorithm = "round_robin"
    /\ time_quantum = 2
    /\ Len(batch) = 1
    /\ requests[batch[1]].processing_time = 7
    /\ completed = << <<batch[1], 7>> >>
    /\ Pops(batch[1]) = 4

\* ------------------------------------------------------------------ C7
\* C7 as stated, the worked trace: round-robin on [R1 (5), R2 (3)] with
\* quantum 2 returns [(R2, 5), (R1, 6)].
C7_ExampleCall ==
    /\ pc = "done"
    /\ algorithm = "round_robin"
    /\ time_quantum = 2
    /\ Len(batch) = 2
    /\ requests[batch[1]].id = 1 /\ requests[batch[1]].processing_time = 5
    /\ requests[batch[2]].id = 2 /\ requests[batch[2]].processing_time = 3

Cex_C7_TraceFiveSix == C7_ExampleCall => Trace = << <<2, 5>>, <<1, 6>> >>

\* C7 amended: in round-robin with quantum >= 1 every completion time is
\* the sum of all amounts served, to any request, up to and including the
\* request's own last slice; every slice goes to the queue head, which is
\* dropped when finished and otherwise re-appended at the tail; so at
\* return each completion time is the cyclic-FIFO closed form, and
\* [R1 (5), R2 (3)] with quantum 2 returns [(R2, 7), (R1, 8)].
C7_Times ==
    RoundRobinRun =>
        /\ \A k \in 1..Len(completed) :
              completed[k][2] = ServedUpTo(LastSlice(completed[k][1]))
        /\ pc = "done" =>
              \A i \in 1..Len(batch) : CompletionTime(batch[i]) = CyclicFinish(i)
        /\ C7_ExampleCall => Trace = << <<2, 7>>, <<1, 8>> >>

C7_Fifo ==
    (RoundRobinRun /\ pc = "round_robin" /\ pc' = "round_robin") =>
        /\ slices' = Append(slices, <<Head(queue), requests[Head(queue)].remaining_time
                                        - requests'[Head(queue)].remaining_time>>)
        /\ \/ queue' = Tail(queue) /\ requests'[Head(queue)].remaining_time = 0
           \/ queue' = Append(Tail(queue), Head(queue))
                /\ requests'[Head(queue)].remaining_time > 0

Thm_C7_RoundRobinTrace == [] C7_Times /\ [][C7_Fifo]_vars

Wit_C7_FiveThreeByTwo ==
    /\ C7_ExampleCall
    /\ completed = << <<batch[2], 7>>, <<batch[1], 8>> >>
    /\ slices = << <<batch[1], 2>>, <<batch[2], 2>>, <<batch[1], 2>>,
                   <<batch[2], 1>>, <<batch[1], 1>> >>

\* ------------------------------------------------------------------ C8
\* C8: non-preemptive priority scheduling emits its records in
\* non-decreasing priority value, the k-th record carries the sum of the
\* processing_time of the first k completed requests, and priorities
\* [3,1,2] with processing times [4,2,5] return priority 1 at 2, priority 2
\* at 7, priority 3 at 11.
Thm_C8_PriorityOrder ==
    (algorithm = "priority" /\ ~preemptive) =>
        /\ \A k, l \in 1..Len(completed) :
              k < l => requests[completed[k][1]].priority <= requests[completed[l][1]].priority
        /\ \A k \in 1..Len(completed) : completed[k][2] = ServiceOfFirst(k)
        /\ (pc = "done" /\ requests = ExamplePriority) =>
              [k \in 1..Len(completed) |->
                 <<requests[completed[k][1]].priority, completed[k][2]>>]
                = << <<1, 2>>, <<2, 7>>, <<3, 11>> >>

Wit_C8_PriorityExample ==
    /\ pc = "done"
    /\ algorithm = "priority"
    /\ ~preemptive
    /\ requests = ExamplePriority
    /\ Trace = << <<2, 2>>, <<3, 7>>, <<1, 11>> >>

\* ------------------------------------------------------------------ C9
\* C9: non-preemptive shortest-job-first emits its records in
\* non-decreasing processing_time, the k-th record carries the sum of the
\* processing_time of the first k completed requests, and processing times
\* [9,1,4] complete in the order 1, 4, 9 at times 1, 5, 14.
Thm_C9_ShortestFirstOrder ==
    (algorithm = "sjf" /\ ~preemptive) =>
        /\ \A k, l \in 1..Len(completed) :
              k < l => requests[completed[k][1]].processing_time
                         <= requests[completed[l][1]].processing_time
        /\ \A k \in 1..Len(completed) : completed[k][2] = ServiceOfFirst(k)
        /\ (pc = "done" /\ requests = ExampleSJF) =>
              [k \in 1..Len(completed) |->
                 <<requests[completed[k][1]].processing_time, completed[k][2]>>]
                = << <<1, 1>>, <<4, 5>>, <<9, 14>> >>

Wit_C9_ShortestFirstExample ==
    /\ pc = "done"
    /\ algorithm = "sjf"
    /\ ~preemptive
    /\ requests = ExampleSJF
    /\ Trace = << <<2, 1>>, <<3, 5>>, <<1, 14>> >>

\* ----------------------------------------------------------------- C10
\* C10: the second call, on a separately built copy of the batch with the
\* same algorithm, quantum and preemptive flag, produces the same (id, time)
\* trace as the first: record by record while it runs, and the whole trace
\* when it returns, also when requests tie on their selection key.
Thm_C10_SameTraceOnCopy ==
    run = 2 =>
        /\ Len(Trace) <= Len(first_trace)
        /\ Trace = SubSeq(first_trace, 1, Len(Trace))
        /\ pc = "done" => Trace = first_trace

Wit_C10_TiedCopyReturned ==
    /\ run = 2
    /\ pc = "done"
    /\ algorithm \in {"priority", "sjf"}
    /\ Len(batch) = 3
    /\ batch[1] > batch[2]
    /\ Len(first_trace) = 3
    /\ requests[batch[1]].priority = requests[batch[2]].priority
    /\ requests[batch[1]].processing_time = requests[batch[2]].processing_time
    /\ requests[batch[1]].arrival_time = requests[batch[2]].arrival_time

\* ----------------------------------------------------------------- C11
\* C11: for n >= 0 and T >= 0 and whatever is drawn, generate returns
\* exactly n requests, their ids are exactly 0..n-1 (each once), every
\* arrival_time lies in [0, T], every remaining_time equals the
\* processing_time, and the list is sorted non-decreasing by arrival_time
\* with equal arrival times in generation (id) order.
Thm_C11_GeneratedBatch ==
    (pc = "generated" /\ num_requests >= 0 /\ max_arrival_time >= 0) =>
        /\ Len(batch) = num_requests
        /\ \A id \in 0..(num_requests - 1) :
              Cardinality({i \in 1..Len(batch) : requests[batch[i]].id = id}) = 1
        /\ \A i \in 1..Len(batch) :
              /\ 0 <= requests[batch[i]].arrival_time
              /\ requests[batch[i]].arrival_time <= max_arrival_time
              /\ requests[batch[i]].remaining_time = requests[batch[i]].processing_time
        /\ \A i, j \in 1..Len(batch) :
              i < j =>
                \/ requests[batch[i]].arrival_time < requests[batch[j]].arrival_time
                \/ /\ requests[batch[i]].arrival_time = requests[batch[j]].arrival_time
                   /\ requests[batch[i]].id < requests[batch[j]].id

Wit_C11_SortedWithTie ==
    /\ pc = "generated"
    /\ num_requests = 3
    /\ max_arrival_time >= 1
    /\ Len(batch) = 3
    /\ requests[batch[1]].id = 1
    /\ requests[batch[2]].id = 0
    /\ requests[batch[3]].id = 2
    /\ requests[batch[2]].arrival_time = requests[batch[3]].arrival_time

\* ----------------------------------------------------------------- C12
\* C12: generate with n < 0 or T < 0 fails: it never returns a batch (not
\* an empty one for a negative count, not one with negative arrival times
\* for a negative bound) and creates no request.
Cex_C12_NegativeArgumentsRejected ==
    (num_requests < 0 \/ max_arrival_time < 0) =>
        (pc # "generated" /\ requests = << >>)

\* ----------------------------------------------------------------- C13
\* C13: every valid call (known algorithm, quantum >= 1 for round-robin)
\* eventually returns with the queue empty; each round-robin iteration
\* strictly decreases the sum of remaining_time over the queued requests and
\* leaves it non-negative; each iteration of priority scheduling and of
\* shortest-job-first shortens the queue by one.
QueuedRemaining(q, reqs) == SumSeq([i \in 1..Len(q) |-> reqs[q[i]].remaining_time])

C13_Measure ==
    /\ (RoundRobinRun /\ pc = "round_robin" /\ pc' = "round_robin") =>
          /\ QueuedRemaining(queue', requests') < QueuedRemaining(queue, requests)
          /\ QueuedRemaining(queue', requests') >= 0
    /\ (pc \in {"priority", "sjf"} /\ pc' = pc) => Len(queue') = Len(queue) - 1

C13_Terminates == (pc = "start" /\ ValidCall) ~> (pc = "done" /\ queue = << >>)

Thm_C13_RunsTerminate == C13_Terminates /\ [][C13_Measure]_vars

Wit_C13_LongRunReturned ==
    /\ pc = "done"
    /\ queue = << >>
    /\ algorithm = "round_robin"
    /\ time_quantum = 1
    /\ Len(batch) = 3
    /\ Len(slices) >= 6

\* ----------------------------------------------------------------- C14
\* C14: priority scheduling with preemptive = true emits its records in
\* ascending order of (priority, arrival_time), so of two requests of equal
\* priority the earlier arrival is completed first wherever they stand in
\* the queue; every iteration completes one request, adds its whole
\* processing_time to the cumulative time and removes it from the queue for
\* good.
C14_Order ==
    (algorithm = "priority" /\ preemptive) =>
        /\ \A k, l \in 1..Len(completed) :
              k < l =>
                ~LexLess(<<requests[completed[l][1]].priority,
                           requests[completed[l][1]].arrival_time>>,
                         <<requests[completed[k][1]].priority,
                           requests[completed[k][1]].arrival_time>>)
        /\ \A k \in 1..Len(completed) :
              /\ completed[k][2] = ServiceOfFirst(k)
              /\ \A i \in 1..Len(queue) : queue[i] # completed[k][1]

C14_OneStep ==
    (algorithm = "priority" /\ preemptive /\ pc = "priority" /\ pc' = "priority") =>
        /\ Len(completed') = Len(completed) + 1
        /\ Len(queue') = Len(queue) - 1
        /\ total_time' = total_time
                          + requests[completed'[Len(completed')][1]].processing_time

Thm_C14_PreemptivePriorityOrder == [] C14_Order /\ [][C14_OneStep]_vars

Wit_C14_EarlierArrivalBehind ==
    /\ pc = "done"
    /\ algorithm = "priority"
    /\ preemptive
    /\ Len(batch) = 3
    /\ requests[batch[1]].priority = requests[batch[3]].priority
    /\ requests[batch[3]].arrival_time < requests[batch[1]].arrival_time
    /\ \E k, l \in 1..Len(completed) :
          k < l /\ completed[k][1] = batch[3] /\ completed[l][1] = batch[1]

\* ----------------------------------------------------------------- C15
\* C15: shortest-job-first with preemptive = true selects at every
\* iteration a queued request minimal in (remaining_time, arrival_time),
\* completes it in that step by adding its whole processing_time to the
\* cumulative time and changes no remaining_time; on a fresh batch its
\* records are in ascending order of (processing_time, arrival_time).
C15_Order ==
    (algorithm = "sjf" /\ preemptive) =>
        \A k, l \in 1..Len(completed) :
            k < l =>
              ~LexLess(<<requests[completed[l][1]].processing_time,
                         requests[completed[l][1]].arrival_time>>,
                       <<requests[completed[k][1]].processing_time,
                         requests[completed[k][1]].arrival_time>>)

C15_Select ==
    (algorithm = "sjf" /\ preemptive /\ pc = "sjf" /\ pc' = "sjf") =>
        LET sel == completed'[Len(completed')][1]
        IN  /\ Len(completed') = Len(completed) + 1
            /\ \E i \in 1..Len(queue) : queue[i] = sel
            /\ \A i \in 1..Len(queue) :
                  ~LexLess(<<requests[queue[i]].remaining_time,
                             requests[queue[i]].arrival_time>>,
                           <<requests[sel].remaining_time, requests[sel].arrival_time>>)
            /\ \A i \in 1..Len(queue') : queue'[i] # sel
            /\ total_time' = total_time + requests[sel].processing_time
            /\ completed'[Len(completed')][2] = total_time'
            /\ requests' = requests

Thm_C15_PreemptiveShortestFirst == [] C15_Order /\ [][C15_Select]_vars

Wit_C15_EarlierArrivalBehind ==
    /\ pc = "done"
    /\ algorithm = "sjf"
    /\ preemptive
    /\ Len(batch) = 3
    /\ requests[batch[1]].processing_time = requests[batch[3]].processing_time
    /\ requests[batch[3]].arrival_time < requests[batch[1]].arrival_time
    /\ \E k, l \in 1..Len(completed) :
          k < l /\ completed[k][1] = batch[3] /\ completed[l][1] = batch[1]

\* ----------------------------------------------------------------- C16
\* C16: no step of any algorithm changes a request's id, processing_time,
\* priority or arrival_time; no step of priority scheduling or of
\* shortest-job-first changes any remaining_time; a round-robin step changes
\* the remaining_time of no request but the one at the queue head.
C16_Frame ==
    /\ DOMAIN requests' = DOMAIN requests
    /\ \A ref \in Refs :
          /\ requests'[ref].id = requests[ref].id
          /\ requests'[ref].processing_time = requests[ref].processing_time
          /\ requests'[ref].priority = requests[ref].priority
          /\ requests'[ref].arrival_time = requests[ref].arrival_time
    /\ algorithm \in {"priority", "sjf"} => requests' = requests
    /\ algorithm = "round_robin" =>
          \A ref \in Refs :
              (queue = << >> \/ ref # Head(queue)) =>
                  requests'[ref].remaining_time = requests[ref].remaining_time

Thm_C16_Frame == [][C16_Frame]_vars

Wit_C16_OnlyHeadCharged ==
    /\ pc = "round_robin"
    /\ Len(batch) = 3
    /\ Len(slices) = 1
    /\ requests[batch[1]].remaining_time < requests[batch[1]].processing_time
    /\ requests[batch[2]].remaining_time = requests[batch[2]].processing_time
    /\ requests[batch[3]].remaining_time = requests[batch[3]].processing_time

\* ----------------------------------------------------------------- C17
\* C17: under every algorithm the cumulative times in the completion list
\* are non-decreasing from first to last record, strictly increasing in a
\* valid call (every processing_time >= 1, quantum >= 1); the cumulative
\* time never decreases while a loop runs with a quantum that is not
\* negative.
C17_Records ==
    /\ \A k, l \in 1..Len(completed) : k < l => completed[k][2] <= completed[l][2]
    /\ ValidCall =>
          \A k, l \in 1..Len(completed) : k < l => completed[k][2] < completed[l][2]

C17_Clock ==
    (pc \in KnownAlgorithms /\ (algorithm = "round_robin" => time_quantum >= 0)) =>
        total_time' >= total_time

TotalService == SumSeq([i \in 1..Len(batch) |-> requests[batch[i]].processing_time])

Thm_C18_Makespan ==
    ValidCall =>
        /\ \A k \in 1..Len(completed) :
              /\ completed[k][2] >= requests[completed[k][1]].processing_time
              /\ completed[k][2] <= TotalService
        /\ (pc = "done" /\ batch # << >>) =>
              completed[Len(completed)][2] = TotalService

Wit_C18_RoundRobinMakespan ==
    /\ pc = "done"
    /\ algorithm = "round_robin"
    /\ time_quantum = 2
    /\ Len(batch) = 3
    /\ completed[3][2] = TotalService
    /\ completed[1][2] > requests[completed[1][1]].processing_time

\* ----------------------------------------------------------------- C19
\* C19: round-robin serves in cyclic FIFO order: the queue is always a
\* rotation of the unfinished requests in their batch order; between two
\* consecutive slices of one request every other request that is unfinished
\* at the first of them receives exactly one slice, and a finished request
\* receives none.
UnfinishedInOrder == SelectSeq(batch, LAMBDA ref : ~HasRecord(ref))

Rotation(q, k) == SubSeq(q, k + 1, Len(q)) \o SubSeq(q, 1, k)

SlicesBetween(ref, i, j) == Cardinality({m \in (i + 1)..(j - 1) : slices[m][1] = ref})

FinishedBefore(ref, i) == HasRecord(ref) /\ LastSlice(ref) < i

Thm_C19_CyclicFifo ==
    (algorithm = "round_robin" /\ pc \in {"round_robin", "done"}) =>
        /\ \E k \in 0..Len(queue) : queue = Rotation(UnfinishedInOrder, k)
        /\ \A i, j \in 1..Len(slices) :
              (i < j /\ slices[i][1] = slices[j][1]
                     /\ SlicesBetween(slices[i][1], i, j) = 0) =>
                  \A ref \in Refs \ {slices[i][1]} :
                      SlicesBetween(ref, i, j) = IF FinishedBefore(ref, i) THEN 0 ELSE 1

Wit_C19_RoundWithOneFinished ==
    /\ pc = "done"
    /\ algorithm = "round_robin"
    /\ time_quantum = 2
    /\ Len(batch) = 3
    /\ Pops(batch[1]) = 2
    /\ Pops(batch[2]) = 1
    /\ Pops(batch[3]) = 2

\* ----------------------------------------------------------------- C20
\* C20: a non-preemptive iteration selects, among the queued requests of
\* minimal key (priority, or processing_time), the one nearest the queue
\* head; and on a fresh batch queued in ascending arrival_time order the
\* preemptive run returns the same (id, time) trace as the non-preemptive
\* one, for priority scheduling and for shortest-job-first.
C20_Key(ref) ==
    IF algorithm = "priority" THEN requests[ref].priority
    ELSE requests[ref].processing_time

C20_HeadmostMinimum ==
    (~preemptive /\ pc \in {"priority", "sjf"} /\ pc' = pc) =>
        LET sel == completed'[Len(completed')][1]
            at == CHOOSE i \in 1..Len(queue) : queue[i] = sel
        IN  /\ \A i \in 1..Len(queue) : C20_Key(queue[i]) >= C20_Key(sel)
            /\ \A i \in 1..(at - 1) : C20_Key(queue[i]) > C20_Key(sel)

C20_SameTrace ==
    (run = 2 /\ preemptive) =>
        /\ Len(Trace) <= Len(first_trace)
        /\ Trace = SubSeq(first_trace, 1, Len(Trace))
        /\ pc = "done" => Trace = first_trace

Thm_C20_PreemptiveFlagIrrelevantWhenSorted ==
    [] C20_SameTrace /\ [][C20_HeadmostMinimum]_vars

Wit_C20_TieDecidedByPosition ==
    /\ run = 2
    /\ preemptive
    /\ pc = "done"
    /\ Len(first_trace) = 3
    /\ Trace = first_trace
    /\ \E ref1, ref2 \in Refs :
          /\ requests[ref1].id = 0
          /\ requests[ref2].id = 1
          /\ requests[ref1].priority = requests[ref2].priority
          /\ requests[ref1].processing_time = requests[ref2].processing_time
          /\ requests[ref1].arrival_time < requests[ref2].arrival_time
          /\ first_trace[1][1] = 0
          /\ first_trace[2][1] = 1

====
